---- MODULE Spec2Model ----
(***************************************************************************)
(* Model of the Mini-Data-Pipeline repository: the line-oriented JSON      *)
(* reader (pipeline/io_utils.py, stream_jsonl), the loader, cleaner and     *)
(* filter (pipeline/loaders.py, cleaners.py, filters.py) and the per-file   *)
(* processor with its temp-file-then-rename output (pipeline/main.py,       *)
(* process_file).                                                           *)
(*                                                                          *)
(* Text is modelled as a sequence of tokens.  A line of the input file is   *)
(* the decoded text that `for raw in f` delivers, without its terminator:   *)
(* "BOM" is U+FEFF, "SP" is a whitespace character, and every other line    *)
(* token stands for a chunk of text (a complete JSON text or garbage).      *)
(* A string value inside a record is a sequence of word tokens, "NL" and    *)
(* "SP".                                                                    *)
(***************************************************************************)
EXTENDS Integers, Sequences, FiniteSets, TLC

\* ------------------------------------------------------------------------
\* Bounds
\* ------------------------------------------------------------------------
MaxLines == 3

MaxTextLen == 3

\* ------------------------------------------------------------------------
\* Python values
\* ------------------------------------------------------------------------
EmptyItems == [k \in {} |-> <<>>]

Dict(items) == [type |-> "dict", items |-> items, text |-> <<>>]

Str(s) == [type |-> "str", items |-> EmptyItems, text |-> s]

ListVal == [type |-> "list", items |-> EmptyItems, text |-> <<>>]

NoneVal == [type |-> "NoneType", items |-> EmptyItems, text |-> <<>>]

\* str.isspace for a token
IsSpace(c) == c \in {"SP", "NL"}

RECURSIVE LStrip(_)
LStrip(s) == IF s # <<>> /\ IsSpace(Head(s)) THEN LStrip(Tail(s)) ELSE s

RECURSIVE RStrip(_)
RStrip(s) ==
    IF s # <<>> /\ IsSpace(s[Len(s)]) THEN RStrip(SubSeq(s, 1, Len(s) - 1)) ELSE s

\* str.strip()
Strip(s) == RStrip(LStrip(s))

\* dict.get(key, "")
Get(d, key) == IF key \in DOMAIN d.items THEN d.items[key] ELSE <<>>

\* ------------------------------------------------------------------------
\* The JSON texts of the model and what json.loads makes of them
\* ------------------------------------------------------------------------
HiRec ==
    Dict([prompt |-> <<"Hi">>, context |-> <<>>, response |-> <<"there">>])

EnRec == Dict([response |-> <<"I", "SP", "like", "SP", "a@b.co">>])

FffdRec == Dict([prompt |-> <<"caf", "FFFD">>, response |-> <<"ok">>])

JsonTexts == {"objHi", "objEn", "objFffd", "list"}

JsonValue(tok) ==
    CASE tok = "objHi" -> HiRec
      [] tok = "objEn" -> EnRec
      [] tok = "objFffd" -> FffdRec
      [] tok = "list" -> ListVal
      [] OTHER -> NoneVal

\* the line tokens whose text contains U+FFFD
FffdTokens == {"objFffd"}

\* json.loads(raw): JSON whitespace around one JSON text, else JSONDecodeError
json_loads(raw) ==
    LET body == Strip(raw)
    IN  IF Len(body) = 1 /\ body[1] \in JsonTexts
        THEN [ok |-> TRUE, val |-> JsonValue(body[1])]
        ELSE [ok |-> FALSE, val |-> NoneVal]

\* raw.startswith(U+FEFF)
StartsWithBom(raw) == raw # <<>> /\ Head(raw) = "BOM"

\* raw.lstrip(U+FEFF): removes every leading U+FEFF
RECURSIVE LStripBom(_)
LStripBom(raw) == IF StartsWithBom(raw) THEN LStripBom(Tail(raw)) ELSE raw

\* U+FFFD in raw
HasFffd(raw) == \E i \in 1..Len(raw) : raw[i] \in FffdTokens

\* ------------------------------------------------------------------------
\* Inputs
\* ------------------------------------------------------------------------
LineSet ==
    { <<>>, <<"SP">>,
      <<"objHi">>, <<"objEn">>, <<"objFffd">>,
      <<"BOM", "objHi">>,
      <<"SP", "list">>, <<"bad">> }

RECURSIVE SeqsUpTo(_, _)
SeqsUpTo(S, n) ==
    IF n = 0 THEN {<<>>}
    ELSE LET shorter == SeqsUpTo(S, n - 1)
         IN  shorter \cup {Append(s, x) : s \in {t \in shorter : Len(t) = n - 1}, x \in S}

Files == SeqsUpTo(LineSet, MaxLines)

Policies == {"raise", "skip", "log"}

Validators == {"none", "v_hi", "v_en"}

\* the caller-supplied validator applied to a parsed value
ValidatorResult(v, val) ==
    CASE v = "v_hi" ->
            (CASE val = HiRec -> "true" [] val = EnRec -> "false"
               [] val = FffdRec -> "raise" [] OTHER -> "true")
      [] v = "v_en" ->
            (CASE val = HiRec -> "raise" [] val = EnRec -> "true"
               [] val = FffdRec -> "true" [] OTHER -> "false")
      [] OTHER -> "true"

\* ------------------------------------------------------------------------
\* stream_jsonl: the keyword defaults of its signature
\* ------------------------------------------------------------------------
on_bad_json_default == "raise"

on_bad_decode_raise == "raise"

on_bad_decode_log == "log"

on_bad_decode_default == "skip"

strip_bom_default == TRUE

validator_default == "none"

\* the value of a keyword parameter: the argument when passed, else the default
Resolve(kw, name, default) == IF name \in kw.passed THEN kw[name] ELSE default

KwNames == {"on_bad_json", "on_bad_decode", "validator", "strip_bom"}

\* stream_jsonl(path) as process_file calls it: no keyword is passed
DefaultKwargs ==
    [passed |-> {}, on_bad_json |-> on_bad_json_default,
     on_bad_decode |-> on_bad_decode_default,
     validator |-> validator_default, strip_bom |-> strip_bom_default]

\* the calls of stream_jsonl the model makes: on_bad_decode may be left out
Calls ==
    [passed : {KwNames}, on_bad_json : Policies, on_bad_decode : Policies,
     validator : Validators, strip_bom : BOOLEAN]
    \cup
    [passed : {KwNames \ {"on_bad_decode"}}, on_bad_json : Policies,
     on_bad_decode : {on_bad_decode_default},
     validator : Validators, strip_bom : BOOLEAN]

VARIABLES
    file,          \* the decoded lines of the input file
    kwargs,        \* the keyword arguments stream_jsonl was called with
    line_num,      \* lines read so far by the generator
    saw_content,   \* stream_jsonl's saw_content flag
    rstatus,       \* "suspended", "done" or "raised"
    exc,           \* the exception the generator raised, "none" otherwise
    yielded,       \* the records yielded so far, in order
    log,           \* the logger.warning calls made so far
    vcalls         \* the values the validator has been called with

rvars == <<file, kwargs, line_num, saw_content, rstatus, exc, yielded, log, vcalls>>

\* the parameters of the running call, defaults filled in
Cfg ==
    [on_bad_json |-> Resolve(kwargs, "on_bad_json", on_bad_json_default),
     on_bad_decode |-> Resolve(kwargs, "on_bad_decode", on_bad_decode_default),
     validator |-> Resolve(kwargs, "validator", validator_default),
     strip_bom |-> Resolve(kwargs, "strip_bom", strip_bom_default)]

Entry(kind, n) == [kind |-> kind, line |-> n]

IsBlankEmptyOnly(raw) == raw = <<>>

\* `if not raw.strip(): continue`
IsBlank(raw) == Strip(raw) = <<>>

BomStrippedEveryLine(raw, cfg, saw) ==
    IF cfg.strip_bom /\ StartsWithBom(raw) THEN LStripBom(raw) ELSE raw

\* the BOM handling of the first non-empty line
BomStripped(raw, cfg, saw) ==
    IF cfg.strip_bom /\ ~saw /\ StartsWithBom(raw) THEN LStripBom(raw) ELSE raw

\* the guard of the decode check
DecodeHit(raw, cfg) == cfg.on_bad_decode # "skip" /\ HasFffd(raw)

BadJsonLogRaises(cfg, n) ==
    [raise |-> cfg.on_bad_json # "skip",
     log |-> IF cfg.on_bad_json = "log" THEN <<Entry("bad_json", n)>> ELSE <<>>]

BadJsonNeverRaises(cfg, n) ==
    [raise |-> FALSE,
     log |-> IF cfg.on_bad_json = "log" THEN <<Entry("bad_json", n)>> ELSE <<>>]

\* the except block of json.loads: re-raise under "raise", else continue,
\* with a warning under "log"
BadJson(cfg, n) ==
    [raise |-> cfg.on_bad_json = "raise",
     log |-> IF cfg.on_bad_json = "log" THEN <<Entry("bad_json", n)>> ELSE <<>>]

ValidatorCallPropagates(cfg, val, n) ==
    LET res == ValidatorResult(cfg.validator, val)
    IN  [ok |-> res = "true",
         propagates |-> res = "raise",
         log |-> IF res = "false" THEN <<Entry("validation", n)>> ELSE <<>>]

\* the validator block: `except Exception` catches whatever the validator
\* raises and turns it into ok = False; a record that is not ok is logged
ValidatorCall(cfg, val, n) ==
    LET res == ValidatorResult(cfg.validator, val)
    IN  [ok |-> res = "true",
         propagates |-> FALSE,
         log |-> (IF res = "raise" THEN <<Entry("validator_exc", n)>> ELSE <<>>)
                 \o (IF res # "true" THEN <<Entry("validation", n)>> ELSE <<>>)]

IsDictUnchecked(val) == TRUE

\* isinstance(rec, dict)
IsDict(val) == val.type = "dict"

\* one iteration of the loop over the lines, for line n of the file:
\* what happens to the line, the warnings logged and the parsed value
LineOutcome(raw0, cfg, saw, n) ==
    LET raw == BomStripped(raw0, cfg, saw)
        hit == DecodeHit(raw, cfg)
        dlog == IF hit /\ cfg.on_bad_decode = "log"
                THEN <<Entry("decode", n)>> ELSE <<>>
        parsed == json_loads(raw)
        bad == BadJson(cfg, n)
        vc == ValidatorCall(cfg, parsed.val, n)
        base == [kind |-> "skip", exc |-> "none", log |-> <<>>,
                 val |-> NoneVal, validated |-> FALSE, content |-> TRUE]
    IN  IF IsBlank(raw0)
        THEN [base EXCEPT !.content = FALSE]
        ELSE IF hit /\ cfg.on_bad_decode = "raise"
        THEN [base EXCEPT !.kind = "raise", !.exc = "UnicodeDecodeError"]
        ELSE IF ~parsed.ok
        THEN IF bad.raise
             THEN [base EXCEPT !.kind = "raise", !.exc = "JSONDecodeError",
                               !.log = dlog]
             ELSE [base EXCEPT !.log = dlog \o bad.log]
        ELSE IF cfg.validator # "none" /\ vc.propagates
        THEN [base EXCEPT !.kind = "raise", !.exc = "ValidatorError",
                          !.log = dlog, !.val = parsed.val, !.validated = TRUE]
        ELSE IF cfg.validator # "none" /\ ~vc.ok
        THEN [base EXCEPT !.log = dlog \o vc.log, !.val = parsed.val,
                          !.validated = TRUE]
        ELSE IF ~IsDict(parsed.val)
        THEN [base EXCEPT !.log = dlog \o <<Entry("not_dict", n)>>,
                          !.val = parsed.val,
                          !.validated = (cfg.validator # "none")]
        ELSE [base EXCEPT !.kind = "yield", !.log = dlog, !.val = parsed.val,
                          !.validated = (cfg.validator # "none")]

\* the outcome of the iteration the suspended generator runs next
NextOutcome == LineOutcome(file[line_num + 1], Cfg, saw_content, line_num + 1)

\* the state every iteration leaves behind, whatever its outcome
LineEffects(o) ==
    /\ line_num' = line_num + 1
    /\ saw_content' = (saw_content \/ o.content)
    /\ log' = log \o o.log
    /\ vcalls' = IF o.validated THEN Append(vcalls, o.val) ELSE vcalls
    /\ UNCHANGED <<file, kwargs>>

\* an iteration that ends in `continue`
StreamSkip ==
    /\ rstatus = "suspended" /\ line_num < Len(file)
    /\ NextOutcome.kind = "skip"
    /\ LineEffects(NextOutcome)
    /\ UNCHANGED <<rstatus, exc, yielded>>

\* an iteration that reaches `yield rec`
StreamYield ==
    /\ rstatus = "suspended" /\ line_num < Len(file)
    /\ NextOutcome.kind = "yield"
    /\ LineEffects(NextOutcome)
    /\ yielded' = Append(yielded, NextOutcome.val)
    /\ UNCHANGED <<rstatus, exc>>

\* an iteration that raises: the generator is finished
StreamRaise ==
    /\ rstatus = "suspended" /\ line_num < Len(file)
    /\ NextOutcome.kind = "raise"
    /\ LineEffects(NextOutcome)
    /\ rstatus' = "raised"
    /\ exc' = NextOutcome.exc
    /\ UNCHANGED yielded

\* the file is exhausted: the loop and the with block end
StreamEnd ==
    /\ rstatus = "suspended" /\ line_num = Len(file)
    /\ rstatus' = "done"
    /\ UNCHANGED <<file, kwargs, line_num, saw_content, exc, yielded, log, vcalls>>

InitReader(f, kw) ==
    /\ file = f
    /\ kwargs = kw
    /\ line_num = 0
    /\ saw_content = FALSE
    /\ rstatus = "suspended"
    /\ exc = "none"
    /\ yielded = <<>>
    /\ log = <<>>
    /\ vcalls = <<>>

\* ------------------------------------------------------------------------
\* Loader, cleaner and filter
\* ------------------------------------------------------------------------
JoinLine(a, b) == IF a = <<>> THEN b ELSE IF b = <<>> THEN a ELSE a \o <<"NL">> \o b

load_dolly15k_nonempty(rec) ==
    Str(Strip(JoinLine(JoinLine(Get(rec, "prompt"), Get(rec, "context")),
                       Get(rec, "response"))))

\* load_dolly15k: f"{prompt}\n{context}\n{response}".strip()
load_dolly15k(rec) ==
    Str(Strip(Get(rec, "prompt") \o <<"NL">> \o Get(rec, "context")
              \o <<"NL">> \o Get(rec, "response")))

\* the two re.sub calls of mask_pii on one token of text
MaskToken(c) ==
    CASE c = "a@b.co" -> "|||EMAIL|||"
      [] c = "1.2.3.4" -> "|||IP|||"
      [] OTHER -> c

\* mask_pii(text): re.sub raises TypeError on anything but a string
mask_pii(text) ==
    IF text.type # "str" THEN [raises |-> TRUE, val |-> NoneVal]
    ELSE [raises |-> FALSE,
          val |-> Str([i \in 1..Len(text.text) |-> MaskToken(text.text[i])])]

EnglishWords == {"Hi", "there", "I", "like", "ok", "|||EMAIL|||", "|||IP|||"}

\* is_english: langdetect's verdict; a detection failure is caught and is False
is_english(text) ==
    /\ \E i \in 1..Len(text) : ~IsSpace(text[i])
    /\ \A i \in 1..Len(text) : IsSpace(text[i]) \/ text[i] \in EnglishWords

\* len(tokenizer.encode(text)): one token per word
token_count(text) == Cardinality({i \in 1..Len(text) : ~IsSpace(text[i])})

min_tokens_default == 5

max_tokens_default == 1024

OutOfBoundsExclusive(count, min_tokens, max_tokens) ==
    count <= min_tokens \/ count >= max_tokens

\* `token_count < min_tokens or token_count > max_tokens`
OutOfBounds(count, min_tokens, max_tokens) ==
    count < min_tokens \/ count > max_tokens

\* filter_record(rec, tokenizer, min_tokens, max_tokens): rec.get is the first
\* thing it does, so a rec that is not a dict raises AttributeError; calls
\* lists the capabilities used, langdetect's detect and tokenizer.encode
filter_record(rec, min_tokens, max_tokens) ==
    IF rec.type # "dict" THEN [raises |-> TRUE, drop |-> FALSE, calls |-> <<>>]
    ELSE LET text == Strip(Get(rec, "text"))
         IN  IF text = <<>>
             THEN [raises |-> FALSE, drop |-> TRUE, calls |-> <<>>]
             ELSE IF ~is_english(text)
             THEN [raises |-> FALSE, drop |-> TRUE, calls |-> <<"detect">>]
             ELSE [raises |-> FALSE,
                   drop |-> OutOfBounds(token_count(text), min_tokens, max_tokens),
                   calls |-> <<"detect", "encode">>]

\* json.dumps({"text": text}) + "\n"
OutLine(text) == [text |-> text.text]

\* ------------------------------------------------------------------------
\* process_file
\* ------------------------------------------------------------------------
Absent == [exists |-> FALSE, lines |-> <<>>]

Present(lines) == [exists |-> TRUE, lines |-> lines]

OldContent == Present(<<[text |-> <<"old">>]>>)

OutSuffixes ==
    { <<".jsonl", ".gz">>, <<".v1", ".jsonl", ".gz">>, <<".jsonl">>, <<".json", ".gz">> }

Loaders == {"load_dolly15k", "custom"}

\* what a caller-supplied loader may do with a record
CustomOutcomes == {"raise", "none", "str"}

LastTwoGzOnly(sfx) ==
    IF sfx # <<>> /\ sfx[Len(sfx)] = ".gz" THEN <<".jsonl", ".gz">> ELSE sfx

\* output_path.suffixes[-2:]
LastTwo(sfx) == IF Len(sfx) <= 2 THEN sfx ELSE SubSeq(sfx, Len(sfx) - 1, Len(sfx))

VARIABLES
    pc,            \* where process_file is
    args,          \* input_exists, output suffixes, loader
    pre,           \* the target path before the call
    target,        \* the target output path
    temp,          \* the temporary file of this call
    record,        \* the record of the current iteration
    text,          \* the text of the current iteration
    num_kept,
    num_skipped,
    result,        \* "none", "True" or "False"
    perr,          \* the exception process_file let out, "none" otherwise
    fault          \* the I/O failure the environment produced, "none" otherwise

pvars == <<pc, args, pre, target, temp, record, text, num_kept, num_skipped,
           result, perr, fault>>

VARIABLES
    flt,           \* a call of filter_record on its own: arguments and outcome
    batch,         \* a run of process_all
    dl             \* a call of download_dataset

xvars == <<flt, batch, dl>>

vars == <<rvars, pvars, xvars>>

\* no call of filter_record, process_all or download_dataset is under way
IdleFlt == [pc |-> "idle"]

IdleBatch == [pc |-> "idle"]

IdleDl == [pc |-> "idle"]

\* the checks made before anything is touched
Validate ==
    /\ pc = "validate"
    /\ IF ~args.input_exists
       THEN pc' = "raised" /\ perr' = "FileNotFoundError"
       ELSE IF LastTwo(args.suffixes) # <<".jsonl", ".gz">>
       THEN pc' = "raised" /\ perr' = "ValueError"
       ELSE pc' = "mktemp" /\ perr' = perr
    /\ UNCHANGED <<args, pre, target, temp, record, text, num_kept, num_skipped,
                   result, fault>>
    /\ UNCHANGED rvars
    /\ UNCHANGED xvars

\* tempfile.NamedTemporaryFile(delete=False, dir=output_path.parent): made
\* outside the try block, so a failure here leaves process_file as an exception
MkTemp ==
    /\ pc = "mktemp"
    /\ \E fails \in BOOLEAN :
          IF fails
          THEN /\ pc' = "raised" /\ perr' = "OSError" /\ fault' = "mktemp"
               /\ temp' = temp
          ELSE /\ pc' = "open" /\ perr' = perr /\ fault' = fault
               /\ temp' = Present(<<>>)
    /\ UNCHANGED <<args, pre, target, record, text, num_kept, num_skipped, result>>
    /\ UNCHANGED rvars
    /\ UNCHANGED xvars

OpenPathTarget == "target"

\* the path gzip.open writes to
OpenPath == "temp"

\* gzip.open(temp_output_path, "wt"): opening for writing truncates the file
OpenOut ==
    /\ pc = "open"
    /\ \E fails \in BOOLEAN :
          IF fails
          THEN pc' = "except" /\ fault' = "open" /\ UNCHANGED <<temp, target>>
          ELSE /\ pc' = "loop" /\ fault' = fault
               /\ temp' = IF OpenPath = "temp" THEN Present(<<>>) ELSE temp
               /\ target' = IF OpenPath = "temp" THEN target ELSE Present(<<>>)
    /\ UNCHANGED <<args, pre, record, text, num_kept, num_skipped, result, perr>>
    /\ UNCHANGED rvars
    /\ UNCHANGED xvars

\* the reader skips a line
PfSkipLine ==
    /\ pc = "loop"
    /\ StreamSkip
    /\ UNCHANGED pvars
    /\ UNCHANGED xvars

\* the reader yields the next record
PfNextRecord ==
    /\ pc = "loop"
    /\ StreamYield
    /\ record' = NextOutcome.val
    /\ pc' = "load"
    /\ UNCHANGED <<args, pre, target, temp, text, num_kept, num_skipped,
                   result, perr, fault>>
    /\ UNCHANGED xvars

\* the reader raises inside the for statement
PfReaderRaises ==
    /\ pc = "loop"
    /\ StreamRaise
    /\ pc' = "except"
    /\ UNCHANGED <<args, pre, target, temp, record, text, num_kept, num_skipped,
                   result, perr, fault>>
    /\ UNCHANGED xvars

\* the reader is exhausted: the with block closes out_f
PfExhausted ==
    /\ pc = "loop"
    /\ StreamEnd
    /\ \E fails \in BOOLEAN :
          IF fails THEN pc' = "except" /\ fault' = "close"
          ELSE pc' = "rename" /\ fault' = fault
    /\ UNCHANGED <<args, pre, target, temp, record, text, num_kept, num_skipped,
                   result, perr>>
    /\ UNCHANGED xvars

\* text = loader(record)
Load ==
    /\ pc = "load"
    /\ IF args.loader = "load_dolly15k"
       THEN pc' = "mask" /\ text' = load_dolly15k(record)
       ELSE \E o \in CustomOutcomes :
              CASE o = "raise" -> pc' = "except" /\ text' = text
                [] o = "none" -> pc' = "mask" /\ text' = NoneVal
                [] o = "str" -> pc' = "mask" /\ text' = Str(Get(record, "response"))
    /\ UNCHANGED <<args, pre, target, temp, record, num_kept, num_skipped,
                   result, perr, fault>>
    /\ UNCHANGED rvars
    /\ UNCHANGED xvars

\* text = mask_pii(text)
Mask ==
    /\ pc = "mask"
    /\ IF mask_pii(text).raises
       THEN pc' = "except" /\ text' = text
       ELSE pc' = "filter" /\ text' = mask_pii(text).val
    /\ UNCHANGED <<args, pre, target, temp, record, num_kept, num_skipped,
                   result, perr, fault>>
    /\ UNCHANGED rvars
    /\ UNCHANGED xvars

\* the argument process_file hands to filter_record
FilterArg(t) == t

\* `if filter_record(text, tokenizer): ... else: out_f.write(...)`
FilterWrite ==
    /\ pc = "filter"
    /\ LET f == filter_record(FilterArg(text), min_tokens_default, max_tokens_default)
       IN  IF f.raises
           THEN /\ pc' = "except"
                /\ UNCHANGED <<temp, num_kept, num_skipped, fault>>
           ELSE IF f.drop
           THEN /\ pc' = "loop"
                /\ num_skipped' = num_skipped + 1
                /\ UNCHANGED <<temp, num_kept, fault>>
           ELSE \E fails \in BOOLEAN :
                  IF fails
                  THEN /\ pc' = "except" /\ fault' = "write"
                       /\ UNCHANGED <<temp, num_kept, num_skipped>>
                  ELSE /\ pc' = "loop" /\ fault' = fault
                       /\ temp' = Present(Append(temp.lines, OutLine(text)))
                       /\ num_kept' = num_kept + 1
                       /\ num_skipped' = num_skipped
    /\ UNCHANGED <<args, pre, target, record, text, result, perr>>
    /\ UNCHANGED rvars
    /\ UNCHANGED xvars

\* temp_output_path.rename(output_path), then `return True`
Rename ==
    /\ pc = "rename"
    /\ \E fails \in BOOLEAN :
          IF fails
          THEN pc' = "except" /\ fault' = "rename" /\ UNCHANGED <<target, temp, result>>
          ELSE /\ pc' = "returned" /\ fault' = fault
               /\ target' = Present(temp.lines)
               /\ temp' = Absent
               /\ result' = "True"
    /\ UNCHANGED <<args, pre, record, text, num_kept, num_skipped, perr>>
    /\ UNCHANGED rvars
    /\ UNCHANGED xvars

CleanupForgotten(t) == t

\* the cleanup of the except block: unlink the temporary file if it exists
Cleanup(t) == IF t.exists THEN Absent ELSE t

\* `except Exception`: clean up, log, `return False`
Except ==
    /\ pc = "except"
    /\ temp' = Cleanup(temp)
    /\ result' = "False"
    /\ pc' = "returned"
    /\ UNCHANGED <<args, pre, target, record, text, num_kept, num_skipped, perr, fault>>
    /\ UNCHANGED rvars
    /\ UNCHANGED xvars

PArgs == [input_exists : BOOLEAN, suffixes : OutSuffixes, loader : Loaders]

InitProcess(a, t) ==
    /\ pc = "validate"
    /\ args = a
    /\ pre = t
    /\ target = t
    /\ temp = Absent
    /\ record = NoneVal
    /\ text = NoneVal
    /\ num_kept = 0
    /\ num_skipped = 0
    /\ result = "none"
    /\ perr = "none"
    /\ fault = "none"

\* process_file(input_path, output_path, loader) on a file system in which
\* the target is absent or holds an earlier output
Init ==
    /\ \E f \in Files : InitReader(f, DefaultKwargs)
    /\ \E a \in PArgs, t \in {Absent, OldContent} : InitProcess(a, t)
    /\ flt = IdleFlt /\ batch = IdleBatch /\ dl = IdleDl

Next ==
    \/ Validate
    \/ MkTemp
    \/ OpenOut
    \/ PfSkipLine
    \/ PfNextRecord
    \/ PfReaderRaises
    \/ PfExhausted
    \/ Load
    \/ Mask
    \/ FilterWrite
    \/ Rename
    \/ Except

Spec == Init /\ [][Next]_vars

\* ------------------------------------------------------------------------
\* stream_jsonl consumed lazily by a caller of its own
\* ------------------------------------------------------------------------
IdleProcess ==
    InitProcess([input_exists |-> TRUE, suffixes |-> <<".jsonl", ".gz">>,
                 loader |-> "load_dolly15k"], Absent)

InitStream ==
    /\ \E f \in Files, kw \in Calls : InitReader(f, kw)
    /\ IdleProcess
    /\ flt = IdleFlt /\ batch = IdleBatch /\ dl = IdleDl

NextStream ==
    \/ StreamSkip /\ UNCHANGED <<pvars, xvars>>
    \/ StreamYield /\ UNCHANGED <<pvars, xvars>>
    \/ StreamRaise /\ UNCHANGED <<pvars, xvars>>
    \/ StreamEnd /\ UNCHANGED <<pvars, xvars>>

SpecStream == InitStream /\ [][NextStream]_vars

\* ------------------------------------------------------------------------
\* filter_record called on its own, as its tests call it
\* ------------------------------------------------------------------------
FilterTokens == {"SP", "Hi", "oi"}

FilterTexts == SeqsUpTo(FilterTokens, MaxTextLen)

\* the records handed to filter_record: {"text": t}, a record without the
\* field, and the str process_file passes
FilterRecs ==
    {Dict([text |-> t]) : t \in FilterTexts} \cup {Dict(EmptyItems), Str(<<"Hi">>)}

MinChoices == {1, 2, min_tokens_default}

MaxChoices == {2, 3, max_tokens_default}

InitFilter ==
    /\ \E r \in FilterRecs, lo \in MinChoices, hi \in MaxChoices :
          flt = [pc |-> "call", rec |-> r, min_tokens |-> lo, max_tokens |-> hi]
    /\ \E f \in {<<>>} : InitReader(f, DefaultKwargs)
    /\ IdleProcess
    /\ batch = IdleBatch /\ dl = IdleDl

\* filter_record(rec, tokenizer, min_tokens=..., max_tokens=...)
FilterCall ==
    /\ flt.pc = "call"
    /\ flt' = [pc |-> "returned", rec |-> flt.rec,
               min_tokens |-> flt.min_tokens, max_tokens |-> flt.max_tokens,
               out |-> filter_record(flt.rec, flt.min_tokens, flt.max_tokens)]
    /\ UNCHANGED <<rvars, pvars, batch, dl>>

NextFilter == FilterCall

SpecFilter == InitFilter /\ [][NextFilter]_vars

\* ------------------------------------------------------------------------
\* process_all: one process_file call per file of the input directory
\* ------------------------------------------------------------------------
\* file names, as their parts between the dots: a.jsonl, a.jsonl.gz,
\* a.jsonl~, a.txt, b.jsonl
BatchNames ==
    {<<"a", "jsonl">>, <<"a", "jsonl", "gz">>, <<"a", "jsonl~">>,
     <<"a", "txt">>, <<"b", "jsonl">>}

\* what an input file holds: no record at all, or at least one Dolly record
BatchKinds == {"no_records", "records"}

\* the part continues the text "jsonl"
StartsWithJsonl(part) == part \in {"jsonl", "jsonl~"}

\* input_dir.glob("*.jsonl*"): the name contains ".jsonl"
GlobMatches(name) == \E i \in 2..Len(name) : StartsWithJsonl(name[i])

\* Path.stem: the name without its last suffix
Stem(name) == IF Len(name) > 1 THEN SubSeq(name, 1, Len(name) - 1) ELSE name

\* output_dir / (input_file.stem + ".jsonl.gz")
OutName(name) == Stem(name) \o <<"jsonl", "gz">>

\* list(...glob(...)): the matching files, in the order the directory gives
Listings(S) == {q \in [1..Cardinality(S) -> S] : \A x \in S : \E i \in DOMAIN q : q[i] = x}

\* the body of process_file's loop on one Dolly record gets past filter_record
RecordSurvives ==
    ~filter_record(FilterArg(mask_pii(load_dolly15k(HiRec)).val),
                   min_tokens_default, max_tokens_default).raises

\* process_file(input_file, output_file) on an existing input and an output
\* name ending in .jsonl.gz: the temporary file cannot be created (the error
\* propagates), something inside the try fails (False), or the temporary
\* file is renamed to the output (True)
ProcessFileOutcomes(kind) ==
    {"OSError", "false"}
        \cup (IF kind = "no_records" \/ RecordSurvives THEN {"true"} ELSE {})

NoFile == <<>>

InitBatch ==
    /\ \E ex \in BOOLEAN, fs \in [BatchNames -> BatchKinds \cup {"absent"}] :
          /\ (~ex => \A n \in BatchNames : fs[n] = "absent")
          /\ batch = [pc |-> "start", exists |-> ex, files |-> fs,
                      listing |-> <<>>, i |-> 1,
                      out |-> [o \in {OutName(n) : n \in BatchNames} |-> NoFile],
                      ok |-> {}, successful |-> 0, total |-> 0, exc |-> "none"]
    /\ \E f \in {<<>>} : InitReader(f, DefaultKwargs)
    /\ IdleProcess
    /\ flt = IdleFlt /\ dl = IdleDl

\* the existence check of the input directory, mkdir, and the glob
BatchStart ==
    /\ batch.pc = "start"
    /\ IF ~batch.exists
       THEN batch' = [batch EXCEPT !.pc = "raised", !.exc = "FileNotFoundError"]
       ELSE \E q \in Listings({n \in BatchNames :
                                  batch.files[n] # "absent" /\ GlobMatches(n)}) :
               batch' = [batch EXCEPT !.pc = "loop", !.listing = q]
    /\ UNCHANGED <<rvars, pvars, flt, dl>>

\* one iteration of the loop over the listed files
BatchFile ==
    /\ batch.pc = "loop" /\ batch.i <= Len(batch.listing)
    /\ LET input_file == batch.listing[batch.i]
           output_file == OutName(input_file)
       IN  \E r \in ProcessFileOutcomes(batch.files[input_file]) :
             CASE r = "OSError" ->
                    batch' = [batch EXCEPT !.pc = "raised", !.exc = "OSError"]
               [] r = "true" ->
                    batch' = [batch EXCEPT !.out[output_file] = input_file,
                                           !.ok = @ \cup {input_file},
                                           !.successful = @ + 1,
                                           !.total = @ + 1,
                                           !.i = @ + 1]
               [] OTHER ->
                    batch' = [batch EXCEPT !.total = @ + 1, !.i = @ + 1]
    /\ UNCHANGED <<rvars, pvars, flt, dl>>

\* the loop is over: the summary is logged
BatchDone ==
    /\ batch.pc = "loop" /\ batch.i > Len(batch.listing)
    /\ batch' = [batch EXCEPT !.pc = "done"]
    /\ UNCHANGED <<rvars, pvars, flt, dl>>

NextBatch == BatchStart \/ BatchFile \/ BatchDone

SpecBatch == InitBatch /\ [][NextBatch]_vars

\* ------------------------------------------------------------------------
\* download_dataset: stream a response body to a temporary file, rename it
\* ------------------------------------------------------------------------
\* the largest number of non-empty chunks a response body has
MaxChunks == 2

\* the sizes of the chunks the server sends
ChunkSizes == {1, 9}

\* the Content-Length header, 0 when there is none
ContentLengths == {0, 10}

NoPath == [exists |-> FALSE, size |-> 0]

PathOfSize(n) == [exists |-> TRUE, size |-> n]

\* `total and temp_path.stat().st_size < 0.9 * total`
TooSmall(size, total) == total # 0 /\ 10 * size < 9 * total

InitDownload ==
    /\ \E d \in {NoPath, PathOfSize(0), PathOfSize(10)} :
          dl = [pc |-> "start", dest |-> d, pre |-> d, temp |-> NoPath,
                temp_path |-> "unbound", total |-> 0, chunks |-> 0,
                exc |-> "none", result |-> "none"]
    /\ \E f \in {<<>>} : InitReader(f, DefaultKwargs)
    /\ IdleProcess
    /\ flt = IdleFlt /\ batch = IdleBatch

\* a destination that already holds data is returned as it is
DlStart ==
    /\ dl.pc = "start"
    /\ IF dl.dest.exists /\ dl.dest.size > 0
       THEN dl' = [dl EXCEPT !.pc = "returned", !.result = "dest"]
       ELSE dl' = [dl EXCEPT !.pc = "request", !.temp_path = "None"]
    /\ UNCHANGED <<rvars, pvars, flt, batch>>

\* requests.get, raise_for_status and the Content-Length header
DlRequest ==
    /\ dl.pc = "request"
    /\ \/ dl' = [dl EXCEPT !.pc = "except", !.exc = "RequestException"]
       \/ \E t \in ContentLengths : dl' = [dl EXCEPT !.pc = "mktemp", !.total = t]
    /\ UNCHANGED <<rvars, pvars, flt, batch>>

\* tempfile.NamedTemporaryFile("wb", delete=False, dir=dest.parent)
DlMkTemp ==
    /\ dl.pc = "mktemp"
    /\ \/ dl' = [dl EXCEPT !.pc = "except", !.exc = "IOError"]
       \/ dl' = [dl EXCEPT !.pc = "stream", !.temp = PathOfSize(0)]
    /\ UNCHANGED <<rvars, pvars, flt, batch>>

\* one step of `for chunk in r.iter_content(...)`: a chunk is written, the
\* connection breaks, or the write fails
DlChunk ==
    /\ dl.pc = "stream" /\ dl.chunks < MaxChunks
    /\ \/ \E c \in ChunkSizes :
            dl' = [dl EXCEPT !.temp = PathOfSize(dl.temp.size + c), !.chunks = @ + 1]
       \/ dl' = [dl EXCEPT !.pc = "except", !.exc = "RequestException"]
       \/ dl' = [dl EXCEPT !.pc = "except", !.exc = "IOError"]
    /\ UNCHANGED <<rvars, pvars, flt, batch>>

\* the body is exhausted: temp_path = Path(tmp.name), the file is closed
DlStreamEnd ==
    /\ dl.pc = "stream"
    /\ dl' = [dl EXCEPT !.pc = "check", !.temp_path = "tmp"]
    /\ UNCHANGED <<rvars, pvars, flt, batch>>

\* the size check against Content-Length
DlCheck ==
    /\ dl.pc = "check"
    /\ IF TooSmall(dl.temp.size, dl.total)
       THEN dl' = [dl EXCEPT !.pc = "except", !.exc = "IOError"]
       ELSE dl' = [dl EXCEPT !.pc = "replace"]
    /\ UNCHANGED <<rvars, pvars, flt, batch>>

\* temp_path.replace(dest), then `return dest`
DlReplace ==
    /\ dl.pc = "replace"
    /\ \/ dl' = [dl EXCEPT !.pc = "except", !.exc = "IOError"]
       \/ dl' = [dl EXCEPT !.pc = "returned", !.result = "dest",
                           !.dest = dl.temp, !.temp = NoPath]
    /\ UNCHANGED <<rvars, pvars, flt, batch>>

\* except (requests.RequestException, IOError): unlink temp_path, re-raise
DlExcept ==
    /\ dl.pc = "except"
    /\ IF dl.temp_path # "None" /\ dl.temp.exists
       THEN dl' = [dl EXCEPT !.pc = "raised", !.temp = NoPath]
       ELSE dl' = [dl EXCEPT !.pc = "raised"]
    /\ UNCHANGED <<rvars, pvars, flt, batch>>

NextDownload ==
    \/ DlStart \/ DlRequest \/ DlMkTemp \/ DlChunk \/ DlStreamEnd
    \/ DlCheck \/ DlReplace \/ DlExcept

SpecDownload == InitDownload /\ [][NextDownload]_vars

\* ------------------------------------------------------------------------
\* Reference definitions for the properties
\* ------------------------------------------------------------------------
Range(q) == {q[i] : i \in 1..Len(q)}

\* a line that is empty or holds nothing but whitespace
WhitespaceOnly(raw) == \A i \in 1..Len(raw) : raw[i] \in {"SP", "NL"}

\* a line that is exactly one JSON object, as json.loads sees the line itself
PureObject(raw) == json_loads(raw).ok /\ json_loads(raw).val.type = "dict"

\* the first line of f that is not blank, 0 when there is none
FirstContent(f) ==
    IF \E i \in 1..Len(f) : ~WhitespaceOnly(f[i])
    THEN CHOOSE i \in 1..Len(f) :
            ~WhitespaceOnly(f[i]) /\ \A j \in 1..(i - 1) : WhitespaceOnly(f[j])
    ELSE 0

\* the JSON text of line i: a byte-order mark that opens the content of the
\* file belongs to the encoding, not to the text, when strip_bom is set
TextAt(f, i, strip) ==
    IF strip /\ i = FirstContent(f) THEN LStripBom(f[i]) ELSE f[i]

ValidObject(f, i, strip) == ~WhitespaceOnly(f[i]) /\ PureObject(TextAt(f, i, strip))

Malformed(f, i, strip) == ~WhitespaceOnly(f[i]) /\ ~json_loads(TextAt(f, i, strip)).ok

\* the objects of lines 1..n of f, in order
RECURSIVE ObjectsUpTo(_, _, _)
ObjectsUpTo(f, strip, n) ==
    IF n = 0 THEN <<>>
    ELSE IF ValidObject(f, n, strip)
    THEN Append(ObjectsUpTo(f, strip, n - 1), json_loads(TextAt(f, n, strip)).val)
    ELSE ObjectsUpTo(f, strip, n - 1)

\* the objects of lines 1..n of f the validator v answers true for, in order
RECURSIVE AcceptedUpTo(_, _, _, _)
AcceptedUpTo(f, strip, v, n) ==
    IF n = 0 THEN <<>>
    ELSE IF /\ ValidObject(f, n, strip)
            /\ ValidatorResult(v, json_loads(TextAt(f, n, strip)).val) = "true"
    THEN Append(AcceptedUpTo(f, strip, v, n - 1), json_loads(TextAt(f, n, strip)).val)
    ELSE AcceptedUpTo(f, strip, v, n - 1)

\* the lines the generator has finished with without raising on them
LinesDone == IF rstatus = "raised" THEN line_num - 1 ELSE line_num

HiText == Str(<<"Hi", "NL", "there">>)

HiTextTwoNewlines == Str(<<"Hi", "NL", "NL", "there">>)

\* ------------------------------------------------------------------------
\* Properties of process_file (checked under Spec)
\* ------------------------------------------------------------------------
\* C1: when process_file has failed after its input validation (it returned
\* False, or the creation of the temporary file raised), the target path is
\* in its pre-call state and no temporary file of the call is left.
C1_FailureLeavesNoTrace ==
    (\/ pc = "returned" /\ result = "False"
     \/ pc = "raised" /\ perr = "OSError")
    => (target = pre /\ ~temp.exists)

\* a call that failed in the middle of the stream, over an earlier output
C1_Witness ==
    /\ pc = "returned" /\ result = "False"
    /\ pre = OldContent /\ line_num > 1 /\ record # NoneVal
    /\ target = pre /\ ~temp.exists

\* C2: at every point of a call the target holds its pre-call state or the
\* complete output (every line written, reader exhausted, call succeeded);
\* only the rename changes the target.
C2_TargetNeverPartial ==
    /\ [](target # pre =>
            /\ pc = "returned" /\ result = "True" /\ rstatus = "done"
            /\ target.exists /\ ~temp.exists
            /\ Len(target.lines) = num_kept)
    /\ [][target' # target => (pc = "rename" /\ target' = Present(temp.lines))]_vars

\* a commit that replaced an earlier output
C2_Witness ==
    /\ pc = "returned" /\ result = "True"
    /\ pre = OldContent /\ target # pre /\ Len(file) = MaxLines

\* C3 (as claimed): with the default loader, an input whose non-blank lines
\* are all JSON objects and no I/O failure, process_file reads to the end,
\* writes one line per kept record, commits and returns True.
C3_ValidInputSucceeds ==
    (/\ pc = "returned" /\ fault = "none" /\ args.loader = "load_dolly15k"
     /\ \A i \in 1..Len(file) : WhitespaceOnly(file[i]) \/ PureObject(file[i]))
    => (/\ result = "True" /\ rstatus = "done"
        /\ target.exists /\ Len(target.lines) = num_kept
        /\ num_kept + num_skipped = Len(yielded))

\* C4 (as claimed): the default loader turns the Hi/there record into
\* "Hi", newline, "there".
C4_LoaderSingleNewline ==
    (args.loader = "load_dolly15k" /\ record = HiRec /\ pc = "mask")
    => text = HiText

\* C4 (amended): the default loader turns the Hi/there record into "Hi", two
\* newlines, "there"; mask_pii leaves it unchanged, and a line written for
\* it is {"text": that text}.
C4_LoaderKeepsEmptyContext ==
    /\ (args.loader = "load_dolly15k" /\ record = HiRec /\ pc \in {"mask", "filter"})
       => text = HiTextTwoNewlines
    /\ (args.loader = "load_dolly15k" /\ Range(yielded) \subseteq {HiRec})
       => Range(temp.lines) \subseteq {OutLine(HiTextTwoNewlines)}

\* the Hi/there record after the loader and mask_pii
C4_Witness ==
    /\ args.loader = "load_dolly15k" /\ record = HiRec /\ pc = "filter"
    /\ text = HiTextTwoNewlines

\* the name ends in the double suffix .jsonl.gz
EndsInJsonlGz(sfx) ==
    Len(sfx) >= 2 /\ sfx[Len(sfx) - 1] = ".jsonl" /\ sfx[Len(sfx)] = ".gz"

\* C12: a missing input raises FileNotFoundError and, for an existing input,
\* an output name that does not end in .jsonl.gz raises ValueError; in both
\* cases process_file never gets past its validation: no temporary file, no
\* line read from the input, the target as it was.
C12_ValidationBeforeEffects ==
    /\ ~args.input_exists
       => (pc \in {"validate", "raised"}
           /\ (pc = "raised" => perr = "FileNotFoundError"))
    /\ (args.input_exists /\ ~EndsInJsonlGz(args.suffixes))
       => (pc \in {"validate", "raised"}
           /\ (pc = "raised" => perr = "ValueError"))
    /\ (pc = "raised" /\ perr \in {"FileNotFoundError", "ValueError"})
       => (/\ temp = Absent /\ target = pre /\ fault = "none"
           /\ line_num = 0 /\ rstatus = "suspended" /\ result = "none")

\* a wrong output name over an earlier output
C12_Witness ==
    /\ pc = "raised" /\ perr = "ValueError"
    /\ args.suffixes = <<".json", ".gz">> /\ pre = OldContent
    /\ target = pre /\ temp = Absent

\* C13 (as claimed): once validation has passed, a failure while creating
\* the temporary file, streaming, transforming, filtering or writing makes
\* process_file return False; no exception leaves it.
C13_FailuresReturnFalse ==
    /\ pc = "raised" => perr \in {"FileNotFoundError", "ValueError"}
    /\ (fault # "none" /\ pc \in {"returned", "raised"})
       => (pc = "returned" /\ result = "False")

\* C17 (as claimed): with the default loader and no I/O failure every record
\* read is counted once as kept or skipped, and the lines written are those
\* of the kept records.
C17_EveryRecordClassified ==
    (args.loader = "load_dolly15k" /\ fault = "none")
    => /\ pc \in {"loop", "rename", "except", "returned"}
          => num_kept + num_skipped = Len(yielded)
       /\ pc \in {"loop", "rename"} => Len(temp.lines) = num_kept

\* ------------------------------------------------------------------------
\* Properties of stream_jsonl (checked under SpecStream)
\* ------------------------------------------------------------------------
DefaultSettings ==
    /\ "on_bad_decode" \notin kwargs.passed
    /\ kwargs.on_bad_json = "raise" /\ kwargs.validator = "none" /\ kwargs.strip_bom

\* C5: with default settings, a file of N lines that are each one JSON
\* object is read without an exception and yields exactly those N objects
\* in order.
C5_RoundTrip ==
    (DefaultSettings /\ \A i \in 1..Len(file) : PureObject(file[i]))
    => /\ rstatus # "raised"
       /\ Len(yielded) = line_num
       /\ \A i \in 1..Len(yielded) : yielded[i] = json_loads(file[i]).val
       /\ rstatus = "done" => Len(yielded) = Len(file)

C5_Witness ==
    /\ DefaultSettings /\ rstatus = "done"
    /\ file = <<(<<"objHi">>), (<<"objFffd">>), (<<"objEn">>)>>
    /\ yielded = <<HiRec, FffdRec, EnRec>>

\* C6: without a validator and unless on_bad_decode is "raise", a file of
\* object lines and blank lines yields the objects of the non-blank lines in
\* order, never raises and never applies the on_bad_json policy.
C6_BlankLinesSkipped ==
    (/\ Cfg.validator = "none" /\ Cfg.on_bad_decode # "raise"
     /\ \A i \in 1..Len(file) : WhitespaceOnly(file[i]) \/ PureObject(file[i]))
    => /\ rstatus # "raised"
       /\ yielded = ObjectsUpTo(file, FALSE, line_num)
       /\ \A e \in Range(log) : e.kind # "bad_json"

C6_Witness ==
    /\ Cfg.validator = "none" /\ Cfg.on_bad_json = "log" /\ rstatus = "done"
    /\ file = <<(<<"SP">>), (<<"objEn">>), (<<>>)>>
    /\ yielded = <<EnRec>> /\ log = <<>>

\* C7: with on_bad_json "skip" or "log" (no validator, on_bad_decode not
\* "raise"), a file whose lines are each malformed or a JSON object is read
\* to the end without an exception and yields exactly the objects, in order.
C7_BadJsonSkipped ==
    (/\ Cfg.on_bad_json \in {"skip", "log"}
     /\ Cfg.validator = "none" /\ Cfg.on_bad_decode # "raise"
     /\ \A i \in 1..Len(file) :
           ValidObject(file, i, Cfg.strip_bom) \/ Malformed(file, i, Cfg.strip_bom))
    => /\ rstatus # "raised"
       /\ yielded = ObjectsUpTo(file, Cfg.strip_bom, line_num)

C7_Witness ==
    /\ Cfg.on_bad_json = "log" /\ Cfg.validator = "none" /\ rstatus = "done"
    /\ file = <<(<<"objHi">>), (<<"bad">>), (<<"objEn">>)>>
    /\ yielded = <<HiRec, EnRec>>

\* the position of the first malformed line, 0 when there is none
FirstMalformed(f, strip) ==
    IF \E i \in 1..Len(f) : Malformed(f, i, strip)
    THEN CHOOSE i \in 1..Len(f) :
            Malformed(f, i, strip) /\ \A j \in 1..(i - 1) : ~Malformed(f, j, strip)
    ELSE 0

\* C8: with on_bad_json "raise" (no validator, on_bad_decode not "raise")
\* and the first malformed line at position k, the generator yields the
\* objects of the lines before k in order, raises the parse error at line k,
\* never reads past k and never finishes normally.
C8_RaiseAtFirstBadLine ==
    LET k == FirstMalformed(file, Cfg.strip_bom)
    IN  (/\ Cfg.on_bad_json = "raise"
         /\ Cfg.validator = "none" /\ Cfg.on_bad_decode # "raise"
         /\ k > 0)
        => /\ line_num <= k
           /\ rstatus # "done"
           /\ yielded = ObjectsUpTo(file, Cfg.strip_bom, IF line_num = k THEN k - 1 ELSE line_num)
           /\ line_num = k => (rstatus = "raised" /\ exc = "JSONDecodeError")
           /\ rstatus = "raised" => ~ENABLED NextStream

C8_Witness ==
    /\ Cfg.on_bad_json = "raise" /\ Cfg.validator = "none"
    /\ file = <<(<<"objEn">>), (<<"bad">>), (<<"objHi">>)>>
    /\ rstatus = "raised" /\ exc = "JSONDecodeError"
    /\ yielded = <<EnRec>> /\ line_num = 2

\* C9: with a validator, exactly the objects it answers true for are
\* yielded; every parsed value it rejects or raises on is logged as failed
\* validation, and no exception of the validator leaves the generator.
C9_ValidatorNeverPropagates ==
    Cfg.validator # "none"
    => /\ yielded = AcceptedUpTo(file, Cfg.strip_bom, Cfg.validator, LinesDone)
       /\ exc # "ValidatorError"
       /\ \A i \in 1..LinesDone :
            (/\ ~WhitespaceOnly(file[i])
             /\ json_loads(TextAt(file, i, Cfg.strip_bom)).ok
             /\ ValidatorResult(Cfg.validator,
                    json_loads(TextAt(file, i, Cfg.strip_bom)).val) # "true")
            => Entry("validation", i) \in Range(log)

C9_Witness ==
    /\ Cfg.validator = "v_hi" /\ rstatus = "done"
    /\ file = <<(<<"objFffd">>), (<<"objEn">>), (<<"objHi">>)>>
    /\ yielded = <<HiRec>>
    /\ Entry("validator_exc", 1) \in Range(log)
    /\ Entry("validation", 2) \in Range(log)

\* C10 (as claimed): when on_bad_decode is not passed, every line read that
\* contains U+FFFD has a decode diagnostic in the log.
C10_DefaultLogsDecode ==
    "on_bad_decode" \notin kwargs.passed
    => \A i \in 1..LinesDone :
         HasFffd(file[i]) => Entry("decode", i) \in Range(log)

\* C10 (amended): when on_bad_decode is not passed the policy is "skip": a
\* line that contains U+FFFD produces no decode diagnostic and never aborts
\* the sequence.
C10_DefaultSkipsDecodeCheck ==
    "on_bad_decode" \notin kwargs.passed
    => /\ \A e \in Range(log) : e.kind # "decode"
       /\ exc # "UnicodeDecodeError"

C10_Witness ==
    /\ "on_bad_decode" \notin kwargs.passed /\ rstatus = "done"
    /\ file = <<(<<"objHi">>), (<<"objFffd">>)>>
    /\ yielded = <<HiRec, FffdRec>> /\ log = <<>>

\* line i of f parses to a JSON value that is not an object
NonObject(f, i, strip) ==
    /\ ~WhitespaceOnly(f[i])
    /\ json_loads(TextAt(f, i, strip)).ok
    /\ json_loads(TextAt(f, i, strip)).val.type # "dict"

C15_SkipDropsFffdLines ==
    Cfg.on_bad_decode = "skip"
    => \A i \in 1..line_num :
         HasFffd(file[i]) => json_loads(TextAt(file, i, Cfg.strip_bom)).val \notin Range(yielded)

\* C16 (as claimed): the validator is only ever called with JSON objects.
C16_ValidatorSeesOnlyObjects ==
    \A i \in 1..Len(vcalls) : vcalls[i].type = "dict"

\* C18: (no validator, on_bad_decode not "raise") the records yielded are
\* those of the lines that are JSON objects once a byte-order mark is taken
\* off the first non-blank line when strip_bom is set, and off no line
\* otherwise; every other line that starts with a byte-order mark is handled
\* by the on_bad_json policy.
C18_BomOnFirstContentLineOnly ==
    (Cfg.validator = "none" /\ Cfg.on_bad_decode # "raise")
    => /\ yielded = ObjectsUpTo(file, Cfg.strip_bom, LinesDone)
       /\ \A i \in 1..line_num :
            (StartsWithBom(file[i]) /\ ~(Cfg.strip_bom /\ i = FirstContent(file)))
            => CASE Cfg.on_bad_json = "raise" ->
                      (line_num = i /\ rstatus = "raised" /\ exc = "JSONDecodeError")
                 [] Cfg.on_bad_json = "log" ->
                      (i <= LinesDone /\ Entry("bad_json", i) \in Range(log))
                 [] OTHER -> i <= LinesDone

\* a blank line, then the mark stripped on line 2 and left in place on line 3
C18_Witness ==
    /\ Cfg.strip_bom /\ Cfg.on_bad_json = "log" /\ Cfg.validator = "none"
    /\ rstatus = "done"
    /\ file = <<(<<"SP">>), (<<"BOM", "objHi">>), (<<"BOM", "objHi">>)>>
    /\ yielded = <<HiRec>>
    /\ log = <<Entry("bad_json", 3)>>

\* ------------------------------------------------------------------------
\* Properties of filter_record (checked under SpecFilter)
\* ------------------------------------------------------------------------
\* the words of a text
Words(t) == {i \in 1..Len(t) : t[i] \notin {"SP", "NL"}}

\* C11: for a record {"text": t}, filter_record drops t when it is empty or
\* whitespace only, or not English, or has fewer than min_tokens or more
\* than max_tokens tokens, and keeps it otherwise, the two bounds included;
\* nothing is called for an empty text and the tokenizer is not called for a
\* text that is not English.
C11_FilterDecision ==
    (flt.pc = "returned" /\ flt.rec.type = "dict")
    => LET t == Get(flt.rec, "text")
           english == \A i \in Words(t) : t[i] \in EnglishWords
           n == Cardinality(Words(t))
       IN  /\ ~flt.out.raises
           /\ flt.out.drop <=> \/ WhitespaceOnly(t)
                                \/ ~english
                                \/ n < flt.min_tokens
                                \/ n > flt.max_tokens
           /\ WhitespaceOnly(t) => flt.out.calls = <<>>
           /\ (~WhitespaceOnly(t) /\ ~english) => flt.out.calls = <<"detect">>
           /\ (~WhitespaceOnly(t) /\ english) => flt.out.calls = <<"detect", "encode">>

\* a text kept with exactly min_tokens = max_tokens tokens
C11_Witness ==
    /\ flt.pc = "returned"
    /\ flt.rec = Dict([text |-> <<"Hi", "SP", "Hi">>])
    /\ flt.min_tokens = 2 /\ flt.max_tokens = 2
    /\ ~flt.out.drop

\* ------------------------------------------------------------------------
\* Properties of process_all (checked under SpecBatch)
\* ------------------------------------------------------------------------
\* C19 (as claimed): distinct listed inputs get distinct output paths, and
\* the output of every input processed successfully is still that input's.
C19_OneOutputPerInput ==
    batch.pc \in {"loop", "done"}
    => /\ \A j, k \in 1..Len(batch.listing) :
            j # k => OutName(batch.listing[j]) # OutName(batch.listing[k])
       /\ \A f \in batch.ok : batch.out[OutName(f)] = f

\* ------------------------------------------------------------------------
\* Properties of download_dataset (checked under SpecDownload)
\* ------------------------------------------------------------------------
\* C20 (as claimed): when download_dataset raises, the call has created
\* nothing at the destination (it is as it was before the call, and absent
\* if it was absent) and its temporary file has been removed.
C20_NoIncompleteDownload ==
    dl.pc = "raised"
    => /\ dl.dest = dl.pre
       /\ ~dl.temp.exists

====
